---- MODULE Spec2Model ----
(***************************************************************************)
(* A model of the two scripts of the repository:                           *)
(*   news_weather.py  describe_tomorrow, mm_to_inches, WEATHERCODE, main   *)
(*   heymommy.py      main (the timed playback loop)                       *)
(*                                                                         *)
(* Python values are tagged records [t |-> type name, v |-> payload].      *)
(* Python floats are IEEE-754 binary64 numbers, modelled bit-exactly: a    *)
(* sign, a 53-bit significand kept in three 24-bit limbs (TLC's integers   *)
(* are 32 bits wide) and a binary exponent.  Division, comparison,         *)
(* decimal-to-binary conversion and the 'f' presentation type are          *)
(* computed as the interpreter computes them (round to nearest, ties to    *)
(* even).                                                                  *)
(***************************************************************************)
EXTENDS Integers, Sequences, FiniteSets, TLC

----------------------------------------------------------------------------
(* Multi-limb naturals: <<a0, a1, a2>> stands for a0 + a1*2^24 + a2*2^48.  *)

LimbBase == 2^24

BigZero == <<0, 0, 0>>

BigOfNat(n) == <<n % LimbBase, n \div LimbBase, 0>>

BigCmp(a, b) ==
    IF a[3] # b[3] THEN (IF a[3] < b[3] THEN -1 ELSE 1)
    ELSE IF a[2] # b[2] THEN (IF a[2] < b[2] THEN -1 ELSE 1)
    ELSE IF a[1] # b[1] THEN (IF a[1] < b[1] THEN -1 ELSE 1)
    ELSE 0

\* a - b, for a >= b
BigSub(a, b) ==
    LET d1 == a[1] - b[1]
        b1 == IF d1 < 0 THEN 1 ELSE 0
        d2 == a[2] - b[2] - b1
        b2 == IF d2 < 0 THEN 1 ELSE 0
    IN  <<d1 + b1 * LimbBase, d2 + b2 * LimbBase, a[3] - b[3] - b2>>

BigDbl(a) ==
    LET s1 == 2 * a[1]
        s2 == 2 * a[2] + (s1 \div LimbBase)
    IN  <<s1 % LimbBase, s2 % LimbBase, 2 * a[3] + (s2 \div LimbBase)>>

BigHalf(a) ==
    <<(a[1] + (a[2] % 2) * LimbBase) \div 2,
      (a[2] + (a[3] % 2) * LimbBase) \div 2,
      a[3] \div 2>>

BigAdd1(a) ==
    IF a[1] + 1 < LimbBase THEN <<a[1] + 1, a[2], a[3]>>
    ELSE IF a[2] + 1 < LimbBase THEN <<0, a[2] + 1, a[3]>>
    ELSE <<0, 0, a[3] + 1>>

\* a * c, for 0 <= c <= 100
BigMulSmall(a, c) ==
    LET p1 == a[1] * c
        p2 == a[2] * c + (p1 \div LimbBase)
    IN  <<p1 % LimbBase, p2 % LimbBase, a[3] * c + (p2 \div LimbBase)>>

BigIsOdd(a) == a[1] % 2 = 1

\* the value of a, for a < 2^31
BigToNat(a) == a[1] + a[2] * LimbBase

Two52 == <<0, 0, 16>>
Two53 == <<0, 0, 32>>

----------------------------------------------------------------------------
(* binary64: [s |-> sign bit, m |-> significand, e |-> exponent], the      *)
(* value (-1)^s * m * 2^e with 2^52 <= m < 2^53, or m = 0 for zero.        *)

FloatZero == [s |-> 0, m |-> BigZero, e |-> 0]

FloatIsZero(x) == x.m = BigZero

\* The arithmetic below is written as functions: a function's argument is
\* evaluated once, before the application, so every intermediate result of a
\* loop is computed a single time.
BigNat == Nat \X Nat \X Nat

Floats == [s : {0, 1}, m : BigNat, e : Int]

\* <<N, D, e>> with N or D doubled until D <= N < 2 * D, (N / D) * 2^e kept
NormalizeF[st \in BigNat \X BigNat \X Int] ==
    IF BigCmp(st[1], st[2]) < 0
    THEN NormalizeF[<<BigDbl(st[1]), st[2], st[3] - 1>>]
    ELSE IF BigCmp(st[1], BigDbl(st[2])) >= 0
    THEN NormalizeF[<<st[1], BigDbl(st[2]), st[3] + 1>>]
    ELSE st

\* k more quotient bits of R / D (R < 2 * D), by restoring division:
\* <<quotient, twice the remainder>>
LongDivF[st \in BigNat \X BigNat \X BigNat \X Nat] ==
    LET R == st[1]
        D == st[2]
        q == st[3]
        k == st[4]
    IN  IF k = 0 THEN <<q, R>>
        ELSE IF BigCmp(R, D) >= 0
             THEN LongDivF[<<BigDbl(BigSub(R, D)), D, BigAdd1(BigDbl(q)), k - 1>>]
             ELSE LongDivF[<<BigDbl(R), D, BigDbl(q), k - 1>>]

\* the 53-bit quotient q with twice its remainder R2, rounded to nearest,
\* ties to even: the float of sign s nearest to (q + R2 / (2 * D)) * 2^e
RoundF[st \in {0, 1} \X (BigNat \X BigNat) \X BigNat \X Int] ==
    LET q   == st[2][1]
        c   == BigCmp(st[2][2], st[3])
        inc == c > 0 \/ (c = 0 /\ BigIsOdd(q))
        m   == IF inc THEN BigAdd1(q) ELSE q
    IN  IF m = Two53 THEN [s |-> st[1], m |-> Two52, e |-> st[4] + 1]
        ELSE [s |-> st[1], m |-> m, e |-> st[4]]

\* <<s, N, D, e>>, normalized: the float nearest to (N / D) * 2^e
DivRoundF[st \in {0, 1} \X BigNat \X BigNat \X Int] ==
    RoundF[<<st[1], LongDivF[<<st[2], st[3], BigZero, 53>>], st[3], st[4] - 52>>]

\* the binary64 nearest to (-1)^s * (N / D) * 2^e0, ties to even, for N, D > 0
RoundRatio(s, N, D, e0) == DivRoundF[<<s>> \o NormalizeF[<<N, D, e0>>]]

\* float(n) for an int n
FloatOfInt(n) ==
    IF n = 0 THEN FloatZero
    ELSE IF n < 0 THEN RoundRatio(1, BigOfNat(-n), BigOfNat(1), 0)
    ELSE RoundRatio(0, BigOfNat(n), BigOfNat(1), 0)

\* the float a decimal literal n / 10^k denotes (k <= 2)
FloatOfDecimal(n, k) ==
    IF n = 0 THEN FloatZero
    ELSE IF n < 0 THEN RoundRatio(1, BigOfNat(-n), BigOfNat(10^k), 0)
    ELSE RoundRatio(0, BigOfNat(n), BigOfNat(10^k), 0)

\* a / b for floats, b # 0
FloatDivF[ab \in Floats \X Floats] ==
    LET a == ab[1]
        b == ab[2]
    IN  IF FloatIsZero(a) THEN [s |-> (a.s + b.s) % 2, m |-> BigZero, e |-> 0]
        ELSE RoundRatio((a.s + b.s) % 2, a.m, b.m, a.e - b.e)

FloatDiv(a, b) == FloatDivF[<<a, b>>]

\* -1, 0, 1 as |a| <, =, > |b|
FloatCmpAbs(a, b) ==
    IF FloatIsZero(a) THEN (IF FloatIsZero(b) THEN 0 ELSE -1)
    ELSE IF FloatIsZero(b) THEN 1
    ELSE IF a.e # b.e THEN (IF a.e < b.e THEN -1 ELSE 1)
    ELSE BigCmp(a.m, b.m)

FloatCmpF[ab \in Floats \X Floats] ==
    LET a  == ab[1]
        b  == ab[2]
        na == a.s = 1 /\ ~FloatIsZero(a)
        nb == b.s = 1 /\ ~FloatIsZero(b)
    IN  IF na /\ ~nb THEN -1
        ELSE IF nb /\ ~na THEN 1
        ELSE IF na THEN -FloatCmpAbs(a, b)
        ELSE FloatCmpAbs(a, b)

FloatCmp(a, b) == FloatCmpF[<<a, b>>]

FloatGe(a, b) == FloatCmp(a, b) >= 0

\* T shifted right by n bits, rounded to nearest, ties to even
ShiftRoundF[st \in BigNat \X Nat \X BOOLEAN \X BOOLEAN] ==
    LET T      == st[1]
        n      == st[2]
        half   == st[3]
        sticky == st[4]
    IN  IF n = 0 THEN (IF half /\ (sticky \/ BigIsOdd(T)) THEN BigAdd1(T) ELSE T)
        ELSE IF T = BigZero THEN BigZero
        ELSE ShiftRoundF[<<BigHalf(T), n - 1, BigIsOdd(T), sticky \/ half>>]

ShiftLeftF[st \in BigNat \X Nat] ==
    IF st[2] = 0 THEN st[1] ELSE ShiftLeftF[<<BigDbl(st[1]), st[2] - 1>>]

\* round(|x| * 10^k) as an integer, for |x| * 10^k < 2^31 and k <= 2
FixedDigitsF[xk \in Floats \X Nat] ==
    LET x == xk[1]
    IN  IF x.e >= 0 THEN BigToNat(ShiftLeftF[<<BigMulSmall(x.m, 10^xk[2]), x.e>>])
        ELSE BigToNat(ShiftRoundF[<<BigMulSmall(x.m, 10^xk[2]), -x.e, FALSE, FALSE>>])

FixedDigits(x, k) == FixedDigitsF[<<x, k>>]

Digit == <<"0", "1", "2", "3", "4", "5", "6", "7", "8", "9">>

RECURSIVE NatStr(_)
NatStr(n) == IF n < 10 THEN Digit[n + 1] ELSE NatStr(n \div 10) \o Digit[(n % 10) + 1]

\* str(n) for an int n
IntStr(n) == IF n < 0 THEN "-" \o NatStr(-n) ELSE NatStr(n)

\* n as exactly k decimal digits, zero padded
RECURSIVE PadStr(_, _)
PadStr(n, k) == IF k = 0 THEN "" ELSE PadStr(n \div 10, k - 1) \o Digit[(n % 10) + 1]

\* sign, digits and the decimal point of a fixed-point numeral
FixedStrF[st \in {0, 1} \X Nat \X Nat] ==
    (IF st[1] = 1 THEN "-" ELSE "")
    \o NatStr(st[2] \div 10^st[3])
    \o (IF st[3] = 0 THEN "" ELSE "." \o PadStr(st[2] % 10^st[3], st[3]))

\* format(x, ".kf") for a float x
FormatF(x, k) == FixedStrF[<<x.s, FixedDigits(x, k), k>>]

----------------------------------------------------------------------------
(* Python values and the operations describe_tomorrow applies to them.     *)

PyNone == [t |-> "NoneType", v |-> 0]
PyInt(n) == [t |-> "int", v |-> n]
PyFloat(x) == [t |-> "float", v |-> x]
PyStr(s) == [t |-> "str", v |-> s]
PyList(l) == [t |-> "list", v |-> l]
PyDict(d) == [t |-> "dict", v |-> d]

\* a local not yet bound
Unset == [t |-> "unset", v |-> 0]

\* the outcome of an expression: a value, or the exception it raises
Ok(x) == [exc |-> "", val |-> x]
Raise(e) == [exc |-> e, val |-> Unset]

\* obj[key]: key is a str or a non-negative int; a JSON object's keys are strs
Subscript(obj, key) ==
    CASE obj.t = "dict" ->
            IF key.t = "str" /\ key.v \in DOMAIN obj.v
            THEN Ok(obj.v[key.v]) ELSE Raise("KeyError")
      [] obj.t = "list" ->
            IF key.t # "int" THEN Raise("TypeError")
            ELSE IF key.v < Len(obj.v) THEN Ok(obj.v[key.v + 1])
            ELSE Raise("IndexError")
      [] obj.t = "str" ->
            IF key.t # "int" THEN Raise("TypeError")
            ELSE IF key.v < Len(obj.v)
                 THEN Ok(PyStr(SubSeq(obj.v, key.v + 1, key.v + 1)))
            ELSE Raise("IndexError")
      [] OTHER -> Raise("TypeError")

\* d.get(key), the default left out: a missing key gives None
DictGetNoDefault(d, key, default) ==
    IF key \in DOMAIN d.v THEN d.v[key] ELSE PyNone

\* d.get(key, default) for a dict d
DictGet(d, key, default) ==
    IF key \in DOMAIN d.v THEN d.v[key] ELSE default

\* repr(x) for None, ints, quote-free strs and lists of them
RECURSIVE PyRepr(_)
PyRepr(x) ==
    CASE x.t = "NoneType" -> "None"
      [] x.t = "int" -> IntStr(x.v)
      [] x.t = "str" -> "'" \o x.v \o "'"
      [] x.t = "list" ->
            LET Join[i \in 0..Len(x.v)] ==
                    IF i = 0 THEN ""
                    ELSE Join[i - 1] \o (IF i = 1 THEN "" ELSE ", ") \o PyRepr(x.v[i])
            IN  "[" \o Join[Len(x.v)] \o "]"

\* str(x), what an f-string's bare {x} inserts
PyStrOf(x) == IF x.t = "str" THEN x.v ELSE PyRepr(x)

\* x / y for a Python value x and a float y
TrueDiv(x, y) ==
    CASE x.t = "int" -> Ok(PyFloat(FloatDiv(FloatOfInt(x.v), y)))
      [] x.t = "float" -> Ok(PyFloat(FloatDiv(x.v, y)))
      [] OTHER -> Raise("TypeError")

\* format(x, ".kf"), what an f-string's {x:.kf} inserts
FormatSpecF(x, k) ==
    CASE x.t = "int" -> Ok(FormatF(FloatOfInt(x.v), k))
      [] x.t = "float" -> Ok(FormatF(x.v, k))
      [] x.t = "str" -> Raise("ValueError")
      [] OTHER -> Raise("TypeError")

\* hash(x) succeeds: lists and dicts are unhashable
Hashable(x) == x.t \notin {"list", "dict"}

----------------------------------------------------------------------------
(* news_weather.py                                                         *)

WEATHERCODE ==
    (0 :> "Clear sky") @@ (1 :> "Mainly clear") @@ (2 :> "Partly cloudy")
    @@ (3 :> "Overcast") @@ (45 :> "Fog") @@ (48 :> "Depositing rime fog")
    @@ (51 :> "Light drizzle") @@ (53 :> "Moderate drizzle")
    @@ (55 :> "Dense drizzle") @@ (56 :> "Light freezing drizzle")
    @@ (57 :> "Dense freezing drizzle") @@ (61 :> "Slight rain")
    @@ (63 :> "Moderate rain") @@ (65 :> "Heavy rain")
    @@ (66 :> "Light freezing rain") @@ (67 :> "Heavy freezing rain")
    @@ (71 :> "Slight snow") @@ (73 :> "Moderate snow") @@ (75 :> "Heavy snow")
    @@ (77 :> "Snow grains") @@ (80 :> "Slight rain showers")
    @@ (81 :> "Moderate rain showers") @@ (82 :> "Violent rain showers")
    @@ (85 :> "Slight snow showers") @@ (86 :> "Heavy snow showers")
    @@ (95 :> "Thunderstorm") @@ (96 :> "Thunderstorm with slight hail")
    @@ (99 :> "Thunderstorm with heavy hail")

\* the literals 25.4, 0.2 and 0.05
MmPerInch == FloatOfDecimal(254, 1)
LikelyThreshold == FloatOfDecimal(2, 1)
ChanceThreshold == FloatOfDecimal(5, 2)

Fallback == "Tomorrow's forecast is unavailable."

\* division by 2.54, the centimetres in an inch
mm_to_inches_cm(mm) == TrueDiv(mm, FloatOfDecimal(254, 2))

mm_to_inches(mm) == TrueDiv(mm, MmPerInch)

\* tomorrow is index 1 (0 = today)
idx == 1

\* the default of daily.get(...): [0, 0]
DefaultSeq == PyList(<<PyInt(0), PyInt(0)>>)

\* except KeyError: only a missing key is caught
CaughtKeyError(e) == e = "KeyError"

\* except Exception: every exception the try block can raise is caught
Caught(e) == e \in {"KeyError", "IndexError", "TypeError", "ValueError"}

\* the try block: the five locals, or the exception of the first failing step
TryBlock(weather_json) ==
    LET daily     == Subscript(weather_json, PyStr("daily"))
        times     == Subscript(daily.val, PyStr("time"))
        date      == Subscript(times.val, PyInt(idx))
        tmaxs     == Subscript(daily.val, PyStr("temperature_2m_max"))
        tmax      == Subscript(tmaxs.val, PyInt(idx))
        tmins     == Subscript(daily.val, PyStr("temperature_2m_min"))
        tmin      == Subscript(tmins.val, PyInt(idx))
        precip_mm == Subscript(DictGet(daily.val, "precipitation_sum", DefaultSeq),
                               PyInt(idx))
        wcode     == Subscript(DictGet(daily.val, "weathercode", DefaultSeq),
                               PyInt(idx))
        Fail(e)   == [exc |-> e, date |-> Unset, tmax |-> Unset, tmin |-> Unset,
                      precip_mm |-> Unset, wcode |-> Unset]
    IN  IF daily.exc # "" THEN Fail(daily.exc)
        ELSE IF times.exc # "" THEN Fail(times.exc)
        ELSE IF date.exc # "" THEN Fail(date.exc)
        ELSE IF tmaxs.exc # "" THEN Fail(tmaxs.exc)
        ELSE IF tmax.exc # "" THEN Fail(tmax.exc)
        ELSE IF tmins.exc # "" THEN Fail(tmins.exc)
        ELSE IF tmin.exc # "" THEN Fail(tmin.exc)
        ELSE IF precip_mm.exc # "" THEN Fail(precip_mm.exc)
        ELSE IF wcode.exc # "" THEN Fail(wcode.exc)
        ELSE [exc |-> "", date |-> date.val, tmax |-> tmax.val, tmin |-> tmin.val,
              precip_mm |-> precip_mm.val, wcode |-> wcode.val]

\* WEATHERCODE[wcode]: an absent code raises KeyError
WeatherDescSubscript(wcode) ==
    IF ~Hashable(wcode) THEN Raise("TypeError")
    ELSE IF wcode.t = "int" /\ wcode.v \in DOMAIN WEATHERCODE
         THEN Ok(WEATHERCODE[wcode.v])
    ELSE Raise("KeyError")

\* WEATHERCODE.get(wcode, f"Weather code {wcode}"): the default is built first
WeatherDesc(wcode) ==
    LET default == "Weather code " \o PyStrOf(wcode)
    IN  IF ~Hashable(wcode) THEN Raise("TypeError")
        ELSE IF wcode.t = "int" /\ wcode.v \in DOMAIN WEATHERCODE
             THEN Ok(WEATHERCODE[wcode.v])
        ELSE Ok(default)

\* the comparisons made on round(precip_in, 2), for precip_in >= 0
PopPhraseRounded(precip_in) ==
    IF FixedDigits(precip_in, 2) >= 20 THEN "Precipitation likely"
    ELSE IF FixedDigits(precip_in, 2) >= 5 THEN "A chance of light precipitation"
    ELSE "Mostly dry"

\* the comparisons made with > in place of >=
PopPhraseStrict(precip_in) ==
    IF FloatCmp(precip_in, LikelyThreshold) > 0 THEN "Precipitation likely"
    ELSE IF FloatCmp(precip_in, ChanceThreshold) > 0
         THEN "A chance of light precipitation"
    ELSE "Mostly dry"

\* the if / elif / else over precip_in
PopPhrase(precip_in) ==
    IF FloatGe(precip_in, LikelyThreshold) THEN "Precipitation likely"
    ELSE IF FloatGe(precip_in, ChanceThreshold) THEN "A chance of light precipitation"
    ELSE "Mostly dry"

\* the f-string with tmin after "High" and tmax after "low"
SummarySwapped(date, wdesc, tmax, tmin, pop_phrase, precip_in) ==
    LET hi == FormatSpecF(tmin, 0)
        lo == FormatSpecF(tmax, 0)
        pr == FormatSpecF(precip_in, 2)
    IN  IF hi.exc # "" THEN Raise(hi.exc)
        ELSE IF lo.exc # "" THEN Raise(lo.exc)
        ELSE IF pr.exc # "" THEN Raise(pr.exc)
        ELSE Ok(PyStrOf(date) \o ": " \o wdesc \o ". High " \o hi.val
                \o "°F, low " \o lo.val \o "°F. " \o pop_phrase
                \o " (expected " \o pr.val \o "\" precipitation).")

\* the returned f-string; the replacement fields are evaluated left to right
Summary(date, wdesc, tmax, tmin, pop_phrase, precip_in) ==
    LET hi == FormatSpecF(tmax, 0)
        lo == FormatSpecF(tmin, 0)
        pr == FormatSpecF(precip_in, 2)
    IN  IF hi.exc # "" THEN Raise(hi.exc)
        ELSE IF lo.exc # "" THEN Raise(lo.exc)
        ELSE IF pr.exc # "" THEN Raise(pr.exc)
        ELSE Ok(PyStrOf(date) \o ": " \o wdesc \o ". High " \o hi.val
                \o "°F, low " \o lo.val \o "°F. " \o pop_phrase
                \o " (expected " \o pr.val \o "\" precipitation).")

----------------------------------------------------------------------------
(* Inputs.  A forecast is drawn as decimal literals (tenths of a degree,   *)
(* hundredths of a millimetre), as the API's JSON text spells them;        *)
(* resp.json() turns each literal into an int or the nearest float.        *)

MaxPrecipH == 520
MaxWeatherCode == 100
MaxTempTenths == 60

\* today's entries (index 0); but for weather code 63, no entry drawn for
\* tomorrow equals today's
Today == [date |-> "2025-06-01", tmaxT |-> 881, tminT |-> 619, precipH |-> 1016,
          wcode |-> 63]

\* the value json.loads gives the literal n / 10^k; written without a
\* fraction (asInt) it is an int
JNum(n, k, asInt) ==
    IF asInt /\ n % (10^k) = 0 THEN PyInt(n \div (10^k))
    ELSE PyFloat(FloatOfDecimal(n, k))

DailyOf(g) ==
    PyDict([time |-> PyList(<<PyStr(Today.date), PyStr(g.date)>>),
            temperature_2m_max |->
                PyList(<<JNum(Today.tmaxT, 1, g.asInt), JNum(g.tmaxT, 1, g.asInt)>>),
            temperature_2m_min |->
                PyList(<<JNum(Today.tminT, 1, g.asInt), JNum(g.tminT, 1, g.asInt)>>),
            precipitation_sum |->
                PyList(<<JNum(Today.precipH, 2, g.asInt), JNum(g.precipH, 2, g.asInt)>>),
            weathercode |-> PyList(<<PyInt(Today.wcode), PyInt(g.wcode)>>)])

ResponseOf(g) ==
    PyDict([latitude |-> PyFloat(FloatOfDecimal(3885, 2)),
            current_weather |->
                PyDict([temperature |-> JNum(Today.tmaxT, 1, g.asInt),
                        time |-> PyStr("2025-06-01T12:00")]),
            daily |-> DailyOf(g)])

DailyKeys == {"time", "temperature_2m_max", "temperature_2m_min",
              "precipitation_sum", "weathercode"}

\* ways a response departs from the documented shape
NoDefect == [kind |-> "none", key |-> "", at |-> 0, val |-> PyNone]

BadDaily == {PyNone, PyList(<<>>), PyStr("n/a"), PyInt(0)}

BadSeq == {PyNone, PyList(<<>>), PyList(<<PyInt(7)>>), PyStr(""), PyStr("x"),
           PyStr("ab"), PyInt(5), PyDict([n |-> PyInt(1)])}

BadElem == {PyNone, PyStr("n/a"), PyList(<<>>), PyList(<<PyInt(1)>>)}

BadTop == {PyNone, PyList(<<>>), PyStr("Too Many Requests")}

Defects ==
    {[kind |-> "no_daily", key |-> "", at |-> 0, val |-> PyNone]}
    \cup {[kind |-> "top_is", key |-> "", at |-> 0, val |-> x] : x \in BadTop}
    \cup {[kind |-> "daily_is", key |-> "", at |-> 0, val |-> x] : x \in BadDaily}
    \cup {[kind |-> "drop", key |-> k, at |-> 0, val |-> PyNone] : k \in DailyKeys}
    \cup {[kind |-> "seq_is", key |-> k, at |-> 0, val |-> x] :
            k \in DailyKeys, x \in BadSeq}
    \cup {[kind |-> "elem_is", key |-> k, at |-> i, val |-> x] :
            k \in DailyKeys, i \in {1, 2}, x \in BadElem}

EmptyDict == PyDict([k \in {} |-> PyNone])

\* departures in the current_weather member, which describe_tomorrow never reads
CurrentDefects ==
    {[kind |-> "cw_drop", key |-> "", at |-> 0, val |-> PyNone]}
    \cup {[kind |-> "cw_is", key |-> "", at |-> 0, val |-> x] :
            x \in {PyNone, EmptyDict, PyList(<<PyInt(1)>>)}}
    \cup {[kind |-> "cw_set", key |-> k, at |-> 0, val |-> x] :
            k \in {"temperature", "time"}, x \in {PyNone, PyInt(71), PyStr("n/a")}}

\* the defects that are also drawn on top of another one
SecondDefects ==
    {d \in Defects :
        \/ d.kind = "drop"
        \/ d.kind = "seq_is" /\ d.val = PyList(<<>>)
        \/ d.kind = "elem_is" /\ d.at = 2 /\ d.val = PyNone}

HasDailyDict(j) ==
    j.t = "dict" /\ "daily" \in DOMAIN j.v /\ j.v["daily"].t = "dict"

WithDaily(j, d) == PyDict([k \in DOMAIN j.v |-> IF k = "daily" THEN d ELSE j.v[k]])

ApplyDefect(j, d) ==
    LET daily == j.v["daily"]
        has   == HasDailyDict(j) /\ d.key \in DOMAIN daily.v
    IN  CASE d.kind = "none" -> j
          [] d.kind = "top_is" -> d.val
          [] d.kind = "no_daily" ->
                IF j.t = "dict" THEN PyDict([k \in DOMAIN j.v \ {"daily"} |-> j.v[k]])
                ELSE j
          [] d.kind = "daily_is" ->
                IF j.t = "dict" /\ "daily" \in DOMAIN j.v THEN WithDaily(j, d.val)
                ELSE j
          [] d.kind = "cw_drop" ->
                PyDict([k \in DOMAIN j.v \ {"current_weather"} |-> j.v[k]])
          [] d.kind = "cw_is" ->
                PyDict([j.v EXCEPT !["current_weather"] = d.val])
          [] d.kind = "cw_set" ->
                PyDict([j.v EXCEPT !["current_weather"] =
                            PyDict([@.v EXCEPT ![d.key] = d.val])])
          [] d.kind = "drop" ->
                IF has
                THEN WithDaily(j, PyDict([k \in DOMAIN daily.v \ {d.key} |-> daily.v[k]]))
                ELSE j
          [] d.kind = "seq_is" ->
                IF has
                THEN WithDaily(j, PyDict([daily.v EXCEPT ![d.key] = d.val]))
                ELSE j
          [] d.kind = "elem_is" ->
                IF has /\ daily.v[d.key].t = "list" /\ Len(daily.v[d.key].v) >= d.at
                THEN WithDaily(j, PyDict([daily.v EXCEPT
                        ![d.key] = PyList([daily.v[d.key].v EXCEPT ![d.at] = d.val])]))
                ELSE j

\* resp.json(): the response the forecast g and the defects d1, d2 describe
JsonOf(g) == ApplyDefect(ApplyDefect(ResponseOf(g), g.d1), g.d2)

Forecast(date, tmaxT, tminT, precipH, wcode, asInt, d1, d2) ==
    [date |-> date, tmaxT |-> tmaxT, tminT |-> tminT, precipH |-> precipH,
     wcode |-> wcode, asInt |-> asInt, d1 |-> d1, d2 |-> d2]

Usual == Forecast("2025-06-02", 705, 498, 0, 2, FALSE, NoDefect, NoDefect)

TempTenths == (-MaxTempTenths .. MaxTempTenths) \cup {685, 695, 705, 1004}

\* the forecasts drawn: each field swept alone, a cross product of the
\* boundary cases, and every defect, alone and under a second one
Forecasts ==
    {[Usual EXCEPT !.precipH = n, !.asInt = i] : n \in 0..MaxPrecipH, i \in BOOLEAN}
    \cup {[Usual EXCEPT !.precipH = n] : n \in {1000, 1270, 2539, 2540, 2541}}
    \cup {[Usual EXCEPT !.wcode = c] : c \in 0..MaxWeatherCode}
    \cup {[Usual EXCEPT !.tmaxT = t, !.asInt = i] : t \in TempTenths, i \in BOOLEAN}
    \cup {[Usual EXCEPT !.tminT = t, !.asInt = i] : t \in TempTenths, i \in BOOLEAN}
    \cup {Forecast("2025-12-31", hi, lo, n, c, i, NoDefect, NoDefect) :
            hi \in {715, -5}, lo \in {500, -15}, n \in {0, 100, 126, 127, 507, 508},
            c \in {0, 12, 95}, i \in BOOLEAN}
    \cup {[Usual EXCEPT !.precipH = n, !.wcode = 12, !.d1 = x, !.d2 = y] :
            n \in {0, 508}, x \in Defects, y \in SecondDefects \cup {NoDefect}}

----------------------------------------------------------------------------
(* State.  pc is the running program's position; caller is "main" while    *)
(* describe_tomorrow runs on behalf of news_weather.main.  given is the     *)
(* forecast weather_json was parsed from.                                   *)

VARIABLES pc, caller, given, weather_json,
          date, tmax, tmin, precip_mm, wcode, precip_in, wdesc, pop_phrase,
          ret, exc,
          mm_pair, inches_pair,
          headlines, w, stdout, rc,
          now, start_time, play_end

locals == <<date, tmax, tmin, precip_mm, wcode, precip_in, wdesc, pop_phrase>>
describeVars == <<caller, given, weather_json, locals, ret, exc>>
convVars == <<mm_pair, inches_pair>>
mainVars == <<headlines, w, stdout, rc>>
heyVars == <<now, start_time, play_end>>
vars == <<pc, describeVars, convVars, mainVars, heyVars>>

LocalsUnset ==
    /\ date = Unset /\ tmax = Unset /\ tmin = Unset /\ precip_mm = Unset
    /\ wcode = Unset /\ precip_in = Unset /\ wdesc = "" /\ pop_phrase = ""
    /\ ret = "" /\ exc = ""

DescribeIdle ==
    /\ caller = "" /\ given = Usual /\ weather_json = Unset /\ LocalsUnset

ConvIdle == mm_pair = <<>> /\ inches_pair = <<>>

MainIdle == headlines = <<>> /\ w = Unset /\ stdout = <<>> /\ rc = -1

HeyIdle == now = 0 /\ start_time = -1 /\ play_end = -1

----------------------------------------------------------------------------
(* describe_tomorrow, statement by statement                               *)

DescribeInit ==
    /\ pc = "try"
    /\ caller = ""
    /\ given \in Forecasts
    /\ weather_json = JsonOf(given)
    /\ LocalsUnset
    /\ ConvIdle /\ MainIdle /\ HeyIdle

\* lines 131-142: bind the five locals, or return the fallback sentence
Try ==
    /\ pc = "try"
    /\ LET t == TryBlock(weather_json)
       IN  IF t.exc = ""
           THEN /\ date' = t.date /\ tmax' = t.tmax /\ tmin' = t.tmin
                /\ precip_mm' = t.precip_mm /\ wcode' = t.wcode
                /\ pc' = "convert"
                /\ UNCHANGED <<ret, exc>>
           ELSE IF Caught(t.exc)
           THEN /\ ret' = Fallback
                /\ pc' = "returned"
                /\ UNCHANGED <<date, tmax, tmin, precip_mm, wcode, exc>>
           ELSE /\ exc' = t.exc
                /\ pc' = "raised"
                /\ UNCHANGED <<date, tmax, tmin, precip_mm, wcode, ret>>
    /\ UNCHANGED <<caller, given, weather_json, precip_in, wdesc, pop_phrase>>
    /\ UNCHANGED <<convVars, mainVars, heyVars>>

\* line 144: precip_in = mm_to_inches(precip_mm)
Convert ==
    /\ pc = "convert"
    /\ LET r == mm_to_inches(precip_mm)
       IN  IF r.exc = ""
           THEN precip_in' = r.val /\ pc' = "lookup" /\ UNCHANGED exc
           ELSE exc' = r.exc /\ pc' = "raised" /\ UNCHANGED precip_in
    /\ UNCHANGED <<caller, given, weather_json, date, tmax, tmin, precip_mm, wcode,
                   wdesc, pop_phrase, ret>>
    /\ UNCHANGED <<convVars, mainVars, heyVars>>

\* line 145: wdesc = WEATHERCODE.get(wcode, f"Weather code {wcode}")
Lookup ==
    /\ pc = "lookup"
    /\ LET r == WeatherDesc(wcode)
       IN  IF r.exc = ""
           THEN wdesc' = r.val /\ pc' = "classify" /\ UNCHANGED exc
           ELSE exc' = r.exc /\ pc' = "raised" /\ UNCHANGED wdesc
    /\ UNCHANGED <<caller, given, weather_json, date, tmax, tmin, precip_mm, wcode,
                   precip_in, pop_phrase, ret>>
    /\ UNCHANGED <<convVars, mainVars, heyVars>>

\* lines 147-153: pop_phrase
Classify ==
    /\ pc = "classify"
    /\ pop_phrase' = PopPhrase(precip_in.v)
    /\ pc' = "format"
    /\ UNCHANGED <<caller, given, weather_json, date, tmax, tmin, precip_mm, wcode,
                   precip_in, wdesc, ret, exc>>
    /\ UNCHANGED <<convVars, mainVars, heyVars>>

\* line 155: return the f-string
Format ==
    /\ pc = "format"
    /\ LET r == Summary(date, wdesc, tmax, tmin, pop_phrase, precip_in)
       IN  IF r.exc = ""
           THEN ret' = r.val /\ pc' = "returned" /\ UNCHANGED exc
           ELSE exc' = r.exc /\ pc' = "raised" /\ UNCHANGED ret
    /\ UNCHANGED <<caller, given, weather_json, locals>>
    /\ UNCHANGED <<convVars, mainVars, heyVars>>

Describe == Try \/ Convert \/ Lookup \/ Classify \/ Format

DescribeSpec == DescribeInit /\ [][Describe]_vars

----------------------------------------------------------------------------
(* mm_to_inches on a pair of amounts, each a literal of hundredths of a    *)
(* millimetre                                                              *)

MaxConvH == 300

ConvAmounts == (0 .. MaxConvH) \cup {2539, 2540, 2541}

ConvInit ==
    /\ pc = "conv"
    /\ \E a \in ConvAmounts, i \in BOOLEAN :
         \E b \in {a, a + 1, a + 10, 2540} :
            mm_pair = <<[n |-> a, asInt |-> i], [n |-> b, asInt |-> i]>>
    /\ inches_pair = <<>>
    /\ DescribeIdle /\ MainIdle /\ HeyIdle

ConvertPair ==
    /\ pc = "conv"
    /\ inches_pair' = <<mm_to_inches(JNum(mm_pair[1].n, 2, mm_pair[1].asInt)).val.v,
                        mm_to_inches(JNum(mm_pair[2].n, 2, mm_pair[2].asInt)).val.v>>
    /\ pc' = "converted"
    /\ UNCHANGED <<mm_pair, describeVars, mainVars, heyVars>>

ConvSpec == ConvInit /\ [][ConvertPair]_vars

----------------------------------------------------------------------------
(* news_weather.main                                                       *)

MaxHeadlines == 2

\* the (title, link) pairs fetch_headlines can return, 'No title' and ''
\* standing in for a missing title and link
Items == {<<"Road work on Main St", "https://news.example/1">>, <<"No title", "">>}

HeadlineLists == UNION {[1..n -> Items] : n \in 0..MaxHeadlines}

\* str(e) of the exceptions a fetch raises
FetchErrors == {"HTTP status 503", "timed out"}

\* the responses fetch_weather can return
MainForecasts ==
    {[Usual EXCEPT !.precipH = n, !.asInt = i] : n \in {0, 508}, i \in BOOLEAN}
    \cup {[Usual EXCEPT !.d1 = x] : x \in Defects \cup CurrentDefects}

\* lines 175-178: one numbered line per headline, and its link if it has one
HeadlineLines(h) ==
    LET Lines[i \in 0..Len(h)] ==
            IF i = 0 THEN <<>>
            ELSE Lines[i - 1] \o <<IntStr(i) \o ". " \o h[i][1]>>
                 \o (IF h[i][2] # "" THEN <<"   " \o h[i][2]>> ELSE <<>>)
    IN  Lines[Len(h)]

\* bool(x)
Truthy(x) ==
    CASE x.t = "NoneType" -> FALSE
      [] x.t = "int" -> x.v # 0
      [] x.t = "float" -> ~FloatIsZero(x.v)
      [] x.t = "str" -> x.v # ""
      [] x.t = "list" -> x.v # <<>>
      [] x.t = "dict" -> DOMAIN x.v # {}

\* obj.get(key): only a dict has get; a missing key gives None
GetMethod(obj, key) ==
    IF obj.t # "dict" THEN Raise("AttributeError")
    ELSE Ok(DictGet(obj, key, PyNone))

\* lines 190-196: the line printed for the current temperature
CurrentLine(resp) ==
    LET got     == GetMethod(resp, "current_weather")
        current == IF Truthy(got.val) THEN got.val ELSE EmptyDict
        temp    == GetMethod(current, "temperature")
        time    == GetMethod(current, "time")
        shown   == FormatSpecF(temp.val, 1)
    IN  IF got.exc # "" THEN Raise(got.exc)
        ELSE IF temp.exc # "" THEN Raise(temp.exc)
        ELSE IF temp.val = PyNone THEN Ok("Current temperature unavailable.")
        ELSE IF shown.exc # "" THEN Raise(shown.exc)
        ELSE Ok("Current temperature in Fairfax, VA: " \o shown.val \o "°F (as of "
                \o PyStrOf(time.val) \o ")")

MainInit ==
    /\ pc = "main"
    /\ MainIdle
    /\ DescribeIdle /\ ConvIdle /\ HeyIdle

\* lines 165-167: fetch_headlines returns its items
HeadlinesOk ==
    /\ pc = "main"
    /\ headlines' \in HeadlineLists
    /\ stdout' = stdout \o <<"Fetching latest headlines for Fairfax, VA...">>
    /\ pc' = "main_print_headlines"
    /\ UNCHANGED <<w, rc, describeVars>>
    /\ UNCHANGED <<convVars, heyVars>>

\* lines 165-170: fetch_headlines raises
HeadlinesFail ==
    /\ pc = "main"
    /\ \E e \in FetchErrors :
          stdout' = stdout \o <<"Fetching latest headlines for Fairfax, VA...",
                                "Failed to fetch headlines: " \o e>>
    /\ headlines' = <<>>
    /\ pc' = "main_print_headlines"
    /\ UNCHANGED <<w, rc, describeVars>>
    /\ UNCHANGED <<convVars, heyVars>>

\* lines 172-180
PrintHeadlines ==
    /\ pc = "main_print_headlines"
    /\ stdout' = stdout \o <<"", "Latest headlines:">>
                 \o (IF headlines # <<>> THEN HeadlineLines(headlines)
                     ELSE <<"No headlines available.">>)
    /\ pc' = "main_fetch_weather"
    /\ UNCHANGED <<headlines, w, rc, describeVars>>
    /\ UNCHANGED <<convVars, heyVars>>

\* lines 182-185: fetch_weather returns resp.json()
WeatherOk ==
    /\ pc = "main_fetch_weather"
    /\ \E g \in MainForecasts : given' = g /\ w' = JsonOf(g)
    /\ stdout' = stdout \o <<"", "Fetching weather (Open-Meteo)...">>
    /\ pc' = "main_current"
    /\ UNCHANGED <<headlines, rc, caller, weather_json, locals, ret, exc>>
    /\ UNCHANGED <<convVars, heyVars>>

\* lines 182-188: fetch_weather raises, main returns 1
WeatherFail ==
    /\ pc = "main_fetch_weather"
    /\ \E e \in FetchErrors :
          stdout' = stdout \o <<"", "Fetching weather (Open-Meteo)...",
                                "Failed to fetch weather: " \o e>>
    /\ rc' = 1
    /\ pc' = "main_done"
    /\ UNCHANGED <<headlines, w, describeVars>>
    /\ UNCHANGED <<convVars, heyVars>>

\* lines 190-196
PrintCurrent ==
    /\ pc = "main_current"
    /\ LET line == CurrentLine(w)
       IN  IF line.exc = ""
           THEN stdout' = stdout \o <<line.val>> /\ pc' = "main_outlook" /\ UNCHANGED exc
           ELSE exc' = line.exc /\ pc' = "main_raised" /\ UNCHANGED stdout
    /\ UNCHANGED <<headlines, w, rc, caller, given, weather_json, locals, ret>>
    /\ UNCHANGED <<convVars, heyVars>>

\* lines 198-200: the call describe_tomorrow(w)
CallDescribe ==
    /\ pc = "main_outlook"
    /\ stdout' = stdout \o <<"", "Tomorrow's outlook:">>
    /\ weather_json' = w
    /\ caller' = "main"
    /\ pc' = "try"
    /\ UNCHANGED <<headlines, w, rc, given, locals, ret, exc>>
    /\ UNCHANGED <<convVars, heyVars>>

\* lines 200-202: print what describe_tomorrow returned, return 0
PrintOutlook ==
    /\ pc = "returned" /\ caller = "main"
    /\ stdout' = stdout \o <<ret>>
    /\ rc' = 0
    /\ pc' = "main_done"
    /\ UNCHANGED <<headlines, w, describeVars>>
    /\ UNCHANGED <<convVars, heyVars>>

\* line 200: an exception describe_tomorrow raised leaves main uncaught
Propagate ==
    /\ pc = "raised" /\ caller = "main"
    /\ pc' = "main_raised"
    /\ UNCHANGED <<headlines, w, stdout, rc, describeVars>>
    /\ UNCHANGED <<convVars, heyVars>>

MainNext ==
    \/ HeadlinesOk \/ HeadlinesFail \/ PrintHeadlines \/ WeatherOk \/ WeatherFail
    \/ PrintCurrent \/ CallDescribe \/ PrintOutlook \/ Propagate
    \/ Try \/ Convert \/ Lookup \/ Classify \/ Format

MainSpec == MainInit /\ [][MainNext]_vars

----------------------------------------------------------------------------
(* heymommy.main.  The clock is time.time() in whole seconds; it advances  *)
(* while play_message and time.sleep run.                                  *)

\* 10 minutes in seconds
duration == 10 * 60

\* interval between messages in seconds
interval == 3

MaxStartTime == 1
MaxPlaySeconds == 2
MaxOversleep == 1

\* the loop condition with <= in place of <
KeepPlayingInclusive(elapsed) == elapsed <= duration

\* the while condition, on the elapsed time
KeepPlaying(elapsed) == elapsed < duration

HeyInit ==
    /\ pc = "hey"
    /\ now \in 0..MaxStartTime
    /\ start_time = -1
    /\ play_end = -1
    /\ DescribeIdle /\ ConvIdle /\ MainIdle

\* lines 12-16
HeyStart ==
    /\ pc = "hey"
    /\ start_time' = now
    /\ pc' = "hey_check"
    /\ UNCHANGED <<now, play_end>>

\* line 18, true: the body is entered and play_message is called
LoopEnter ==
    /\ pc = "hey_check"
    /\ KeepPlaying(now - start_time)
    /\ pc' = "hey_play"
    /\ UNCHANGED heyVars

\* line 18, false: the loop is left (line 22)
LoopExit ==
    /\ pc = "hey_check"
    /\ ~KeepPlaying(now - start_time)
    /\ pc' = "hey_wait"
    /\ UNCHANGED heyVars

\* line 19: play_message synthesizes, saves and plays, then returns
PlayMessage ==
    /\ pc = "hey_play"
    /\ \E d \in 0..MaxPlaySeconds : now' = now + d
    /\ play_end' = now'
    /\ pc' = "hey_sleep"
    /\ UNCHANGED start_time

\* line 20: time.sleep(interval) returns after at least interval seconds
Sleep ==
    /\ pc = "hey_sleep"
    /\ \E late \in 0..MaxOversleep : now' = now + interval + late
    /\ pc' = "hey_check"
    /\ UNCHANGED <<start_time, play_end>>

\* lines 25-28: keyboard.wait('ctrl+z') returns, break
CtrlZ ==
    /\ pc = "hey_wait"
    /\ pc' = "hey_done"
    /\ UNCHANGED heyVars

HeyLoop == HeyStart \/ LoopEnter \/ LoopExit \/ PlayMessage \/ Sleep

HeyNext ==
    \/ (HeyStart /\ UNCHANGED <<describeVars, convVars, mainVars>>)
    \/ (LoopEnter /\ UNCHANGED <<describeVars, convVars, mainVars>>)
    \/ (LoopExit /\ UNCHANGED <<describeVars, convVars, mainVars>>)
    \/ (PlayMessage /\ UNCHANGED <<describeVars, convVars, mainVars>>)
    \/ (Sleep /\ UNCHANGED <<describeVars, convVars, mainVars>>)
    \/ (CtrlZ /\ UNCHANGED <<describeVars, convVars, mainVars>>)

\* the interpreter keeps executing the program's statements, and play_message
\* and time.sleep return; nothing obliges the user to press ctrl+z
HeySpec ==
    HeyInit /\ [][HeyNext]_vars
    /\ WF_vars(HeyLoop /\ UNCHANGED <<describeVars, convVars, mainVars>>)

----------------------------------------------------------------------------
(* Properties of describe_tomorrow, under DescribeSpec.  They are stated   *)
(* on the response itself and on the decimal literals it was parsed from,  *)
(* in integer arithmetic.                                                  *)

Abs(x) == IF x < 0 THEN -x ELSE x

StartsWith(s, t) == Len(s) >= Len(t) /\ SubSeq(s, 1, Len(t)) = t

EndsWith(s, t) == Len(s) >= Len(t) /\ SubSeq(s, Len(s) - Len(t) + 1, Len(s)) = t

Contains(s, t) ==
    \E i \in 1..(Len(s) - Len(t) + 1) : SubSeq(s, i, i + Len(t) - 1) = t

HasKey(j, k) == j.t = "dict" /\ k \in DOMAIN j.v

\* daily[k] is a list of at least two entries whose index 1 has a type of ts
GoodAt1(daily, k, ts) ==
    /\ HasKey(daily, k)
    /\ daily.v[k].t = "list"
    /\ Len(daily.v[k].v) >= 2
    /\ daily.v[k].v[2].t \in ts

Numbers == {"int", "float"}

\* every field describe_tomorrow reads is there and of its documented type;
\* the two keys the code defaults may be absent
WellFormed(j) ==
    /\ HasKey(j, "daily")
    /\ LET daily == j.v["daily"]
       IN  /\ GoodAt1(daily, "time", {"str"})
           /\ GoodAt1(daily, "temperature_2m_max", Numbers)
           /\ GoodAt1(daily, "temperature_2m_min", Numbers)
           /\ HasKey(daily, "precipitation_sum")
                => GoodAt1(daily, "precipitation_sum", Numbers)
           /\ HasKey(daily, "weathercode") => GoodAt1(daily, "weathercode", {"int"})

\* the entry at index 1 of daily[k]
Tomorrow(j, k) == j.v["daily"].v[k].v[2]

\* weather_json is a valid record whose numbers at index 1 are the literals
\* of the forecast given
IsRecord ==
    /\ WellFormed(weather_json)
    /\ HasKey(weather_json.v["daily"], "precipitation_sum")
    /\ HasKey(weather_json.v["daily"], "weathercode")
    /\ Tomorrow(weather_json, "temperature_2m_max") = JNum(given.tmaxT, 1, given.asInt)
    /\ Tomorrow(weather_json, "temperature_2m_min") = JNum(given.tminT, 1, given.asInt)
    /\ Tomorrow(weather_json, "precipitation_sum") = JNum(given.precipH, 2, given.asInt)
    /\ Tomorrow(weather_json, "weathercode") = PyInt(given.wcode)

\* the bracket of n hundredths of a millimetre: n / 2540 inches against
\* 20 / 100 and 5 / 100
ExpectedPhrase(n) ==
    IF 100 * n >= 20 * 2540 THEN "Precipitation likely"
    ELSE IF 100 * n >= 5 * 2540 THEN "A chance of light precipitation"
    ELSE "Mostly dry"

ExpectedDesc(c) ==
    IF c \in DOMAIN WEATHERCODE THEN WEATHERCODE[c] ELSE "Weather code " \o IntStr(c)

\* the numerals of the integers nearest to t tenths (both, at a tie); a
\* negative t keeps its sign
NearestStrs(t) ==
    {IF t < 0 THEN "-" \o NatStr(-i) ELSE NatStr(i) :
        i \in {i \in ((t \div 10) - 1)..((t \div 10) + 1) : Abs(10 * i - t) <= 5}}

\* n hundredths of a millimetre in inches (n / 2540), to the nearest
\* hundredth of an inch, and its numeral with two decimals
NearestHundredth(n) ==
    CHOOSE h \in 0..((n \div 25) + 1) : Abs(254 * h - 10 * n) <= 127

TwoDecimals(n) ==
    LET h == NearestHundredth(n)
    IN  NatStr(h \div 100) \o "." \o Digit[((h \div 10) % 10) + 1] \o Digit[(h % 10) + 1]

\* C1: describe_tomorrow is total over malformed input: whenever a field
\* it reads is missing, of the wrong type or indexed out of range, the call
\* raises no exception and returns exactly the fallback sentence.
C1_TotalOverMalformed ==
    ~WellFormed(weather_json)
        => /\ pc # "raised"
           /\ pc = "returned" => ret = Fallback

\* a None at index 1 of temperature_2m_max leaves the try block bound to
\* tmax, and the call raises TypeError
C1_RaisesOnNone ==
    /\ pc = "raised"
    /\ exc = "TypeError"
    /\ tmax = PyNone
    /\ ~WellFormed(weather_json)

\* C2: for every valid record the phrase is the bracket of the unrounded
\* precipitation in inches: >= 0.20 "Precipitation likely", >= 0.05 and
\* < 0.20 "A chance of light precipitation", < 0.05 "Mostly dry"; the
\* returned sentence carries that phrase.
C2_PhraseBrackets ==
    IsRecord
        => /\ pc \in {"format", "returned"}
                => pop_phrase = ExpectedPhrase(given.precipH)
           /\ pc = "returned"
                => Contains(ret, "°F. " \o ExpectedPhrase(given.precipH) \o " (expected ")

\* 5.05 mm is shown as 0.20" and is still below the 0.20 threshold
C2_Unrounded ==
    /\ pc = "returned"
    /\ IsRecord
    /\ given.precipH = 505
    /\ pop_phrase = "A chance of light precipitation"
    /\ EndsWith(ret, " (expected 0.20\" precipitation).")

\* C3: 5.08 mm converts to exactly 0.2 in and yields "Precipitation
\* likely", 1.27 mm converts to exactly 0.05 in and yields "A chance of
\* light precipitation", and 1.0 mm yields "Mostly dry".
C3_Boundaries ==
    (IsRecord /\ pc \in {"format", "returned"})
        => /\ given.precipH = 508
                => /\ FloatCmp(precip_in.v, LikelyThreshold) = 0
                   /\ pop_phrase = "Precipitation likely"
           /\ given.precipH = 127
                => /\ FloatCmp(precip_in.v, ChanceThreshold) = 0
                   /\ pop_phrase = "A chance of light precipitation"
           /\ given.precipH = 100 => pop_phrase = "Mostly dry"

C3_AtLikelyThreshold ==
    /\ pc = "returned"
    /\ IsRecord
    /\ given.precipH = 508
    /\ Contains(ret, "Precipitation likely")

\* the response has no "daily" key, or a sequence that is present under
\* one of the five keys has fewer than two entries
MissingStructure(j) ==
    \/ ~HasKey(j, "daily")
    \/ /\ j.v["daily"].t = "dict"
       /\ \E k \in DailyKeys \cap DOMAIN j.v["daily"].v :
            /\ j.v["daily"].v[k].t \in {"list", "str"}
            /\ Len(j.v["daily"].v[k].v) < 2

\* C4: when weather_json has no "daily" key, or one of the five sequences
\* that is present has fewer than two entries, describe_tomorrow leaves the
\* try block only by returning the fallback sentence, and raises nothing.
C4_MissingStructure ==
    MissingStructure(weather_json)
        => /\ pc \in {"try", "returned"}
           /\ pc = "returned" => ret = Fallback

C4_EmptySequence ==
    /\ pc = "returned"
    /\ ret = Fallback
    /\ HasDailyDict(weather_json)
    /\ HasKey(weather_json.v["daily"], "weathercode")
    /\ weather_json.v["daily"].v["weathercode"] = PyList(<<>>)
    /\ given.d2 = NoDefect

\* C5: for a valid record the description is the table's phrase when the
\* weather code is in WEATHERCODE and "Weather code <code>" otherwise (code
\* 12 gives "Weather code 12"); the lookup raises nothing, and the returned
\* sentence carries the description after the date.
C5_WeatherCodeLookup ==
    IsRecord
        => /\ pc # "raised"
           /\ pc \in {"classify", "format", "returned"}
                => /\ wdesc = ExpectedDesc(given.wcode)
                   /\ given.wcode = 12 => wdesc = "Weather code 12"
                   /\ given.wcode = 95 => wdesc = "Thunderstorm"
           /\ pc = "returned"
                => StartsWith(ret, Tomorrow(weather_json, "time").v \o ": "
                                   \o ExpectedDesc(given.wcode) \o ". High ")

C5_UnknownCode ==
    /\ pc = "returned"
    /\ IsRecord
    /\ given.wcode = 12
    /\ StartsWith(ret, "2025-06-02: Weather code 12. High ")

\* C6: for every valid record describe_tomorrow returns
\* "<date>: <description>. High <tmax>°F, low <tmin>°F. <phrase> (expected
\* <precip_in>" precipitation)." built from the entries at index 1, tmax and
\* tmin as their nearest integers and precip_in with two decimals.
C6_Format ==
    IsRecord
        => /\ pc # "raised"
           /\ pc = "returned"
                => \E hi \in NearestStrs(given.tmaxT), lo \in NearestStrs(given.tminT) :
                      ret = Tomorrow(weather_json, "time").v \o ": "
                            \o ExpectedDesc(given.wcode) \o ". High " \o hi
                            \o "°F, low " \o lo \o "°F. "
                            \o ExpectedPhrase(given.precipH) \o " (expected "
                            \o TwoDecimals(given.precipH) \o "\" precipitation)."

C6_Sentence ==
    /\ pc = "returned"
    /\ IsRecord
    /\ given.date = "2025-12-31"
    /\ ret = "2025-12-31: Clear sky. High 72°F, low 50°F. "
             \o "A chance of light precipitation (expected 0.05\" precipitation)."

----------------------------------------------------------------------------
(* mm_to_inches, under ConvSpec                                            *)

\* C7: mm_to_inches is the conversion inches = mm / 25.4: a <= b implies
\* mm_to_inches(a) <= mm_to_inches(b), 0 converts to 0, 25.4 converts to
\* exactly 1.0, and every result is within half a hundredth of an inch of
\* mm / 25.4.
C7_Conversion ==
    pc = "converted"
        => /\ mm_pair[1].n <= mm_pair[2].n
                => FloatCmp(inches_pair[1], inches_pair[2]) <= 0
           /\ mm_pair[1].n = 0 => inches_pair[1] = FloatZero
           /\ mm_pair[1].n = 2540 => inches_pair[1] = FloatOfInt(1)
           /\ \A i \in {1, 2} :
                /\ inches_pair[i].s = 0
                /\ FixedDigits(inches_pair[i], 2) = NearestHundredth(mm_pair[i].n)

C7_UnitPoint ==
    /\ pc = "converted"
    /\ mm_pair[1].n = 2540
    /\ mm_pair[2].n = 2541
    /\ inches_pair[1] = FloatOfInt(1)
    /\ FloatCmp(inches_pair[1], inches_pair[2]) < 0

----------------------------------------------------------------------------
(* heymommy.main, under HeySpec                                            *)

\* C8: a playback starts only while fewer than 600 seconds have elapsed
\* since the start, every playback is followed by a sleep of at least 3
\* seconds before the next check, the playback loop is eventually left, and
\* from then on the program only waits for ctrl+z.
C8_PlaybackWindow ==
    /\ [](pc = "hey_play" => now - start_time < 600)
    /\ [][/\ pc' = "hey_play" => pc = "hey_check" /\ now - start_time < 600
          /\ pc = "hey_play" => pc' = "hey_sleep"
          /\ pc = "hey_sleep" => pc' = "hey_check" /\ now' >= now + 3
          /\ pc \in {"hey_wait", "hey_done"} => pc' \in {"hey_wait", "hey_done"}
          /\ now' >= now]_vars
    /\ <>(pc = "hey_wait")

C8_LeftAt600 ==
    /\ pc = "hey_wait"
    /\ play_end >= 0
    /\ now - start_time = 600

----------------------------------------------------------------------------
(* news_weather.main, under MainSpec                                       *)

Printed(line) == \E i \in 1..Len(stdout) : stdout[i] = line

\* the headline step has printed its heading and at least one line under it
\* before the line that announces the weather fetch
HeadlinesBeforeWeather ==
    \A i \in 1..Len(stdout) :
        stdout[i] = "Fetching weather (Open-Meteo)..."
            => \E j \in 1..(i - 2) : stdout[j] = "Latest headlines:"

\* C10: the headline step completes before the weather fetch is attempted,
\* whether or not the headline fetch failed; main returns 1 exactly when
\* fetch_weather raises, then printing neither the current temperature nor
\* the outlook; and main returns 0 without raising for every response
\* fetch_weather returns, malformed ones included.
C10_ExitStatus ==
    /\ HeadlinesBeforeWeather
    /\ pc \in {"main_done", "main_raised"} => Printed("Fetching weather (Open-Meteo)...")
    /\ pc = "main_done"
        => /\ rc = 1 <=> w = Unset
           /\ rc = 0 <=> w # Unset
           /\ rc = 1 => ~Printed("Tomorrow's outlook:")
                        /\ \A i \in 1..Len(stdout) : ~StartsWith(stdout[i], "Current temp")
    /\ pc # "main_raised"

\* a response whose temperature_2m_max holds None at index 1 was fetched,
\* and the TypeError describe_tomorrow raises leaves main
C10_RaisesOnMalformed ==
    /\ pc = "main_raised"
    /\ caller = "main"
    /\ w # Unset
    /\ tmax = PyNone
    /\ exc = "TypeError"

====
